---- MODULE Spec2Model ----
(***************************************************************************)
(* Model of the player match physical overview (load_table.py, app.py).    *)
(*                                                                         *)
(* Text is modelled as a sequence of one-character strings, so that        *)
(* stripping, splitting, case folding and substring search are computed    *)
(* as the Python code computes them.  Floating point values are modelled   *)
(* as exact rationals plus the three IEEE specials nan, inf and -inf.      *)
(*                                                                         *)
(* Specifications:                                                         *)
(*   Spec         build_player_match_overview on tables of up to MaxRows   *)
(*                records that differ in club, player and match id         *)
(*   SpecMetrics  the same call on one record whose metrics vary, followed *)
(*                by table_to_png_bytes                                    *)
(*   SpecApp      runs of app.main and direct calls, on tables whose       *)
(*                columns vary                                             *)
(*   SpecParse    _parse_home_away_and_opponent on labels and clubs        *)
(*   SpecLayout   the same call on one player with up to MaxLayoutRows     *)
(*                records, followed by table_to_png_bytes at several dpi   *)
(*                                                                         *)
(* The match_id column is a text column: every id is a string of digits,   *)
(* which covers an integer column (ids without leading zeros).             *)
(***************************************************************************)
EXTENDS Integers, Sequences, FiniteSets, Bags, TLC

VARIABLES
    csv_exists,    \* app.py: Path(csv_path).exists()
    columns,       \* set(df.columns) of the loaded table
    df,            \* the raw table: a sequence of raw records
    team_name,     \* argument of build_player_match_overview
    team_player_name,
    compare_player_name,
    pc,            \* position inside build_player_match_overview
    result,        \* outcome of build_player_match_overview
    combined_src,  \* the sorted frame combined_src (line 213)
    display_df,    \* the returned display_df (line 219)
    caption,       \* the caption set on the styler (line 309)
    png,           \* what table_to_png_bytes draws
    dpi,           \* argument dpi of table_to_png_bytes
    app_pc,        \* position inside app.main
    ui,            \* what the app has shown so far, in order
    log,           \* calls into load_table made so far, in order
    match_name,    \* argument of _parse_home_away_and_opponent
    club,          \* argument of _parse_home_away_and_opponent
    parsed         \* its return value

vars == <<csv_exists, columns, df, team_name, team_player_name,
          compare_player_name, pc, result, combined_src, display_df,
          caption, png, dpi, app_pc, ui, log, match_name, club, parsed>>

-----------------------------------------------------------------------------
(* Python str primitives over character sequences                          *)

UPPER == <<"A","B","C","D","E","F","G","H","I","J","K","L","M",
           "N","O","P","Q","R","S","T","U","V","W","X","Y","Z">>
LOWER == <<"a","b","c","d","e","f","g","h","i","j","k","l","m",
           "n","o","p","q","r","s","t","u","v","w","x","y","z">>
DIGITS == <<"0","1","2","3","4","5","6","7","8","9">>

\* the missing value (NaN / None) of a text cell
NoneValue == <<"<NA>">>

IsUpper(c) == \E j \in 1..Len(UPPER) : UPPER[j] = c

\* str.casefold on the ASCII letters
casefold(s) ==
    [i \in 1..Len(s) |->
        IF IsUpper(s[i])
        THEN LOWER[CHOOSE j \in 1..Len(UPPER) : UPPER[j] = s[i]]
        ELSE s[i]]

\* str.strip(): drop leading and trailing whitespace
strip(s) ==
    LET keep == {i \in 1..Len(s) : s[i] # " "}
    IN  IF keep = {} THEN <<>>
        ELSE LET a == CHOOSE i \in keep : \A j \in keep : i <= j
                 b == CHOOSE i \in keep : \A j \in keep : j <= i
             IN  SubSeq(s, a, b)

\* str.find(sub): the first index at which sub occurs in s, 0 when none
find(s, sub) ==
    LET hits == {i \in 1..(Len(s) - Len(sub) + 1) :
                    SubSeq(s, i, i + Len(sub) - 1) = sub}
    IN  IF hits = {} THEN 0 ELSE CHOOSE i \in hits : \A j \in hits : i <= j

\* the Python operator `sub in s`
contains(sub, s) == find(s, sub) # 0

\* str.split(sep): the parts between non-overlapping occurrences, left to right
RECURSIVE split(_, _)
split(s, sep) ==
    LET i == find(s, sep)
    IN  IF i = 0 THEN <<s>>
        ELSE <<SubSeq(s, 1, i - 1)>> \o split(SubSeq(s, i + Len(sep), Len(s)), sep)

\* str.split() without argument: the words between runs of whitespace
RECURSIVE words(_)
words(s) ==
    LET t == strip(s)
        i == find(t, <<" ">>)
    IN  IF t = <<>> THEN <<>>
        ELSE IF i = 0 THEN <<t>>
        ELSE <<SubSeq(t, 1, i - 1)>> \o words(SubSeq(t, i + 1, Len(t)))

\* sep.join(parts)
RECURSIVE join(_, _)
join(sep, parts) ==
    IF parts = <<>> THEN <<>>
    ELSE IF Len(parts) = 1 THEN parts[1]
    ELSE parts[1] \o sep \o join(sep, Tail(parts))

\* str(x) of a text cell: the missing value prints as "nan"
Str(x) == IF x = NoneValue THEN <<"n","a","n">> ELSE x

-----------------------------------------------------------------------------
(* _parse_home_away_and_opponent                                           *)

separators == << <<" ","v","s"," ">>, <<" ","v"," ">>, <<" ","V","S"," ">>,
                 <<" ","V","s"," ">>, <<" ","V"," ">> >>

HOME == <<"H","o","m","e">>
AWAY == <<"A","w","a","y">>
QMARK == <<"?">>
UNKNOWN == <<"U","n","k","n","o","w","n">>
VS == <<" ","v","s"," ">>

\* " ".join(match_name.strip().split())
Normalize(label) == join(<<" ">>, words(strip(label)))

\* the loop over the separators: <<left, right>> of the first separator that
\* occurs in the label and splits it in exactly two parts, <<>> when none does
SplitLabel(normalized) ==
    LET usable == {k \in 1..Len(separators) :
                      /\ contains(separators[k], normalized)
                      /\ Len(split(normalized, separators[k])) = 2}
    IN  IF usable = {} THEN <<>>
        ELSE LET k == CHOOSE i \in usable : \A j \in usable : i <= j
                 parts == split(normalized, separators[k])
             IN  <<strip(parts[1]), strip(parts[2])>>

HomeAwayContainmentFirst(left, right, club_norm) ==
    LET left_norm == casefold(left)
        right_norm == casefold(right)
    IN  IF contains(club_norm, left_norm) THEN <<HOME, right>>
        ELSE IF contains(club_norm, right_norm) THEN <<AWAY, left>>
        ELSE <<QMARK, left \o VS \o right>>

\* the decision once the label is split
HomeAway(left, right, club_norm) ==
    LET left_norm == casefold(left)
        right_norm == casefold(right)
    IN  IF club_norm = left_norm THEN <<HOME, right>>
        ELSE IF club_norm = right_norm THEN <<AWAY, left>>
        ELSE IF contains(club_norm, left_norm) THEN <<HOME, right>>
        ELSE IF contains(club_norm, right_norm) THEN <<AWAY, left>>
        ELSE <<QMARK, left \o VS \o right>>

_parse_home_away_and_opponent(label, clb) ==
    IF label = NoneValue \/ strip(label) = <<>> THEN <<QMARK, UNKNOWN>>
    ELSE LET normalized == Normalize(label)
             lr == SplitLabel(normalized)
         IN  IF lr = <<>> THEN <<QMARK, normalized>>
             ELSE HomeAway(lr[1], lr[2], casefold(strip(clb)))

-----------------------------------------------------------------------------
(* float64 values: exact rationals n/d (d > 0, reduced) and nan, inf, -inf *)

RECURSIVE Gcd(_, _)
Gcd(a, b) == IF b = 0 THEN a ELSE Gcd(b, a % b)

Abs(x) == IF x < 0 THEN -x ELSE x

Num(n, d) ==
    LET g == Gcd(Abs(n), Abs(d))
        sgn == IF d < 0 THEN -1 ELSE 1
    IN  [k |-> "num", n |-> (sgn * n) \div g, d |-> Abs(d) \div g]

NaN == [k |-> "nan", n |-> 0, d |-> 1]
Inf == [k |-> "inf", n |-> 1, d |-> 1]
NegInf == [k |-> "inf", n |-> -1, d |-> 1]

IsNaN(x) == x.k = "nan"
IsFinite(x) == x.k = "num"

\* a < b on floats: every comparison with nan is false
FLt(a, b) ==
    IF IsNaN(a) \/ IsNaN(b) THEN FALSE
    ELSE IF a.k = "inf" /\ b.k = "inf" THEN a.n < b.n
    ELSE IF a.k = "inf" THEN a.n < 0
    ELSE IF b.k = "inf" THEN b.n > 0
    ELSE a.n * b.d < b.n * a.d

FLe(a, b) == ~IsNaN(a) /\ ~IsNaN(b) /\ ~FLt(b, a)

\* a / b as numpy divides float64: x/0 is +-inf, 0/0 is nan, nothing raises
FDiv(a, b) ==
    IF IsNaN(a) \/ IsNaN(b) THEN NaN
    ELSE IF a.k = "inf" /\ b.k = "inf" THEN NaN
    ELSE IF a.k = "inf" THEN (IF b.n < 0 THEN [a EXCEPT !.n = -a.n] ELSE a)
    ELSE IF b.k = "inf" THEN Num(0, 1)
    ELSE IF b.n = 0
         THEN (IF a.n > 0 THEN Inf ELSE IF a.n < 0 THEN NegInf ELSE NaN)
    ELSE Num(a.n * b.d, a.d * b.n)

\* a - b
FSub(a, b) ==
    IF IsNaN(a) \/ IsNaN(b) THEN NaN
    ELSE IF a.k = "inf" /\ b.k = "inf" THEN (IF a.n = b.n THEN NaN ELSE a)
    ELSE IF a.k = "inf" THEN a
    ELSE IF b.k = "inf" THEN [b EXCEPT !.n = -b.n]
    ELSE Num(a.n * b.d - b.n * a.d, a.d * b.d)

\* the builtins min(a, b) and max(a, b): the first argument is kept unless the
\* second compares strictly smaller (larger), so a nan second argument is dropped
PyMin(a, b) == IF FLt(b, a) THEN b ELSE a
PyMax(a, b) == IF FLt(a, b) THEN b ELSE a

_clamp_no_upper(v, lo, hi) == PyMax(lo, v)

_clamp(v, lo, hi) == PyMax(lo, PyMin(hi, v))

-----------------------------------------------------------------------------
(* cells of the numeric columns, and pd.to_numeric(errors="coerce")        *)

IntCell(v) == [t |-> "int", v |-> v]
TextCell == [t |-> "text", v |-> 0]      \* a cell that is no number, "abc"
NaCell == [t |-> "na", v |-> 0]          \* an empty cell

to_numeric(cell) == IF cell.t = "int" THEN Num(cell.v, 1) ELSE NaN

-----------------------------------------------------------------------------
(* match ids: text cells of digits; int(), pd.to_numeric, the date          *)

IsDigit(c) == \E j \in 1..Len(DIGITS) : DIGITS[j] = c
DigitVal(c) == (CHOOSE j \in 1..Len(DIGITS) : DIGITS[j] = c) - 1

IsNumeral(s) == s # NoneValue /\ strip(s) # <<>>
                /\ \A i \in 1..Len(strip(s)) : IsDigit(strip(s)[i])

RECURSIVE DigitsValue(_)
DigitsValue(s) ==
    IF s = <<>> THEN 0
    ELSE 10 * DigitsValue(SubSeq(s, 1, Len(s) - 1)) + DigitVal(s[Len(s)])

\* int(match_id) of a numeral (leading zeros and outer blanks are accepted)
IntOf(s) == DigitsValue(strip(s))

\* len(str(n)) for n >= 0
RECURSIVE StrLen(_)
StrLen(n) == IF n < 10 THEN 1 ELSE 1 + StrLen(n \div 10)

NoDate == 0
TimestampMin == 16770921

DaysInMonth(y, m) ==
    IF m \in {4, 6, 9, 11} THEN 30
    ELSE IF m = 2
         THEN (IF (y % 4 = 0 /\ y % 100 # 0) \/ y % 400 = 0 THEN 29 ELSE 28)
    ELSE 31

\* the date as the number YYYYMMDD, NoDate when any step fails
_match_date_from_match_id(match_id) ==
    IF ~IsNumeral(match_id) THEN NoDate
    ELSE LET n == IntOf(match_id)
             y == n \div 10000
             m == (n \div 100) % 100
             d == n % 100
         IN  IF StrLen(n) # 8 THEN NoDate
             ELSE IF /\ m \in 1..12
                     /\ d \in 1..DaysInMonth(y, m)
                     /\ n > TimestampMin
                     /\ n <= 22620411
                  THEN n
             ELSE NoDate

\* pd.to_numeric(match_id, errors="coerce")
MatchIdNum(match_id) == IF IsNumeral(match_id) THEN Num(IntOf(match_id), 1) ELSE NaN

-----------------------------------------------------------------------------
(* validate_physical_data                                                  *)

REQUIRED_COLUMNS == {"player_id", "player_name", "match_id", "match_name",
                     "club", "Minutes", "total_distance", "hi_runs",
                     "sprint_runs", "position"}

MissingColumnsFirstOnly(cols) ==
    IF REQUIRED_COLUMNS \ cols = {} THEN {}
    ELSE {CHOOSE c \in REQUIRED_COLUMNS \ cols : TRUE}

\* REQUIRED_COLUMNS - set(df.columns)
MissingColumns(cols) == REQUIRED_COLUMNS \ cols

NoResult == [kind |-> "none", missing |-> {}]
Returned == [kind |-> "ok", missing |-> {}]
\* ValueError("No rows found for club=... player_name=...")
NotFoundError == [kind |-> "NotFound", missing |-> {}]
\* ValueError("CSV is missing required columns: [...]")
SchemaError(missing) == [kind |-> "SchemaError", missing |-> missing]

-----------------------------------------------------------------------------
(* _compute_player_match_metrics                                           *)

\* " {} " between the two parts of the label; "*" stands for the bullet U+2022
BULLET == <<" ", "*", " ">>

\* one row of the frame `out` (lines 160-174) for one filtered raw record
DeriveRow(r) ==
    LET ha_opp == _parse_home_away_and_opponent(Str(r.match_name), Str(r.club))
        minutes == to_numeric(r.Minutes)
        total_m == to_numeric(r.total_distance)
    IN  [match_id |-> r.match_id,
         _match_date |-> _match_date_from_match_id(r.match_id),
         _match_id_num |-> MatchIdNum(r.match_id),
         match_label |-> ha_opp[1] \o BULLET \o ha_opp[2],
         player_name |-> Str(r.player_name),
         position |-> Str(r.position),
         minutes |-> minutes,
         total_km |-> FDiv(total_m, Num(1000, 1)),
         m_per_min |-> FDiv(total_m, minutes),
         runs |-> to_numeric(r.hi_runs),
         sprints |-> to_numeric(r.sprint_runs)]

FilteredIgnoringCase(table, team, player) ==
    LET Keep(r) == /\ casefold(Str(r.club)) = casefold(Str(team))
                   /\ casefold(Str(r.player_name)) = casefold(Str(player))
    IN  SelectSeq(table, Keep)

\* the rows of df for the club and the player (lines 137-140)
Filtered(table, team, player) ==
    LET Keep(r) == Str(r.club) = Str(team) /\ Str(r.player_name) = Str(player)
    IN  SelectSeq(table, Keep)

_compute_player_match_metrics(table, team, player) ==
    LET filtered == Filtered(table, team, player)
    IN  [i \in 1..Len(filtered) |-> DeriveRow(filtered[i])]

-----------------------------------------------------------------------------
(* the ordering of combined_src (lines 212-217)                            *)

ORD == <<" ">> \o DIGITS \o UPPER \o LOWER
ord(c) == CHOOSE j \in 1..Len(ORD) : ORD[j] = c

\* a < b on str: lexicographic by code point
RECURSIVE StrLt(_, _)
StrLt(a, b) ==
    IF b = <<>> THEN FALSE
    ELSE IF a = <<>> THEN TRUE
    ELSE IF a[1] # b[1] THEN ord(a[1]) < ord(b[1])
    ELSE StrLt(Tail(a), Tail(b))

\* -1 when a sorts before b, 1 when after, 0 when the key ties; a missing key
\* sorts last whatever the direction (na_position="last")
DateCmp(a, b) == IF a > b THEN -1 ELSE IF a < b THEN 1 ELSE 0

NumDescCmp(a, b) ==
    IF IsNaN(a) /\ IsNaN(b) THEN 0
    ELSE IF IsNaN(a) THEN 1
    ELSE IF IsNaN(b) THEN -1
    ELSE IF FLt(b, a) THEN -1 ELSE IF FLt(a, b) THEN 1 ELSE 0

RawDescCmp(a, b) ==
    IF a = b THEN 0
    ELSE IF a = NoneValue THEN 1
    ELSE IF b = NoneValue THEN -1
    ELSE IF StrLt(b, a) THEN -1 ELSE 1

RankCmp(a, b) == IF a < b THEN -1 ELSE IF a > b THEN 1 ELSE 0

RowCmpNoRaw(a, b) ==
    IF DateCmp(a._sort_date, b._sort_date) # 0
    THEN DateCmp(a._sort_date, b._sort_date)
    ELSE IF NumDescCmp(a._match_id_num, b._match_id_num) # 0
    THEN NumDescCmp(a._match_id_num, b._match_id_num)
    ELSE RankCmp(a._player_rank, b._player_rank)

RowCmpRankDesc(a, b) ==
    IF DateCmp(a._sort_date, b._sort_date) # 0
    THEN DateCmp(a._sort_date, b._sort_date)
    ELSE IF NumDescCmp(a._match_id_num, b._match_id_num) # 0
    THEN NumDescCmp(a._match_id_num, b._match_id_num)
    ELSE IF RawDescCmp(a.match_id, b.match_id) # 0
    THEN RawDescCmp(a.match_id, b.match_id)
    ELSE RankCmp(b._player_rank, a._player_rank)

\* by=[_sort_date, _match_id_num, match_id, _player_rank],
\* ascending=[False, False, False, True]
RowCmp(a, b) ==
    IF DateCmp(a._sort_date, b._sort_date) # 0
    THEN DateCmp(a._sort_date, b._sort_date)
    ELSE IF NumDescCmp(a._match_id_num, b._match_id_num) # 0
    THEN NumDescCmp(a._match_id_num, b._match_id_num)
    ELSE IF RawDescCmp(a.match_id, b.match_id) # 0
    THEN RawDescCmp(a.match_id, b.match_id)
    ELSE RankCmp(a._player_rank, b._player_rank)

\* x put into a sorted sequence behind every row it does not sort before
RECURSIVE Insert(_, _)
Insert(sorted, x) ==
    IF sorted = <<>> THEN <<x>>
    ELSE IF RowCmp(x, Head(sorted)) < 0 THEN <<x>> \o sorted
    ELSE <<Head(sorted)>> \o Insert(Tail(sorted), x)

\* sort_values(...): a stable sort, rows with equal keys keep their order
RECURSIVE sort_values(_)
sort_values(rows) ==
    IF rows = <<>> THEN <<>>
    ELSE Insert(sort_values(SubSeq(rows, 1, Len(rows) - 1)), rows[Len(rows)])

-----------------------------------------------------------------------------
(* build_player_match_overview                                             *)

\* bool(x) of an optional str: None and "" are false
Truthy(x) == x # NoneValue /\ x # <<>>

\* p["_player_rank"] = rank; p["_row_type"] = role
WithRole(rows, rank, role) ==
    [i \in 1..Len(rows) |-> rows[i] @@ [_player_rank |-> rank, _row_type |-> role]]

\* combined_src["_sort_date"] = combined_src["_match_date"].fillna(Timestamp.min)
WithSortDate(rows) ==
    [i \in 1..Len(rows) |->
        rows[i] @@ [_sort_date |-> IF rows[i]._match_date = NoDate
                                   THEN TimestampMin
                                   ELSE rows[i]._match_date]]

CompareActive(player, compare) == Truthy(compare) /\ Str(compare) # Str(player)

CombineIgnoringEmptyCompare(table, team, player, compare) ==
    LET p1 == WithRole(_compute_player_match_metrics(table, team, player), 0, "primary")
        p2 == _compute_player_match_metrics(table, team, Str(compare))
    IN  IF Truthy(compare) THEN p1 \o WithRole(p2, 1, "compare") ELSE p1

CombineSharedMatchesOnly(table, team, player, compare) ==
    LET p1 == WithRole(_compute_player_match_metrics(table, team, player), 0, "primary")
        p2 == WithRole(_compute_player_match_metrics(table, team, Str(compare)), 1, "compare")
        In1(r) == \E j \in 1..Len(p1) : p1[j].match_id = r.match_id
        In2(r) == \E j \in 1..Len(p2) : p2[j].match_id = r.match_id
    IN  IF CompareActive(player, compare) /\ Len(p2) > 0
        THEN SelectSeq(p1, In2) \o SelectSeq(p2, In1)
        ELSE p1

\* lines 194-210: p1, or p1 followed by p2 when the comparison is active and
\* the comparison player has rows
Combine(table, team, player, compare) ==
    LET p1 == WithRole(_compute_player_match_metrics(table, team, player), 0, "primary")
        p2 == _compute_player_match_metrics(table, team, Str(compare))
    IN  IF CompareActive(player, compare) /\ Len(p2) > 0
        THEN p1 \o WithRole(p2, 1, "compare")
        ELSE p1

\* one row of display_df (lines 219-231)
DisplayRow(r) ==
    [row_type |-> r._row_type,
     Match |-> r.match_label,
     Player |-> r.player_name,
     Pos |-> r.position,
     Min |-> r.minutes,
     TotalDistanceKm |-> r.total_km,
     MPerMin |-> r.m_per_min,
     Runs |-> r.runs,
     Sprints |-> r.sprints]

Display(rows) == [i \in 1..Len(rows) |-> DisplayRow(rows[i])]

\* lines 309-311; " - " stands for the em dash between the names and the team
Caption(team, player, compare) ==
    IF CompareActive(player, compare)
    THEN Str(player) \o <<" ","v","s"," ">> \o Str(compare) \o <<" ","-"," ">> \o Str(team) \o <<" ","(","a","l","l"," ","m","a","t","c","h","e","s",")">>
    ELSE Str(player) \o <<" ","-"," ">> \o Str(team) \o <<" ","(","p","e","r"," ","m","a","t","c","h",")">>

-----------------------------------------------------------------------------
(* table_to_png_bytes: the bar and the number drawn in each cell           *)

BarMin == Num(0, 1)
KmMax == Num(13, 1)
MPerMinMax == Num(140, 1)
RunsMax == Num(50, 1)
SprintsMax == Num(20, 1)

RECURSIVE Pow10(_)
Pow10(e) == IF e = 0 THEN 1 ELSE 10 * Pow10(e - 1)

\* n/d (d > 0) rounded to the nearest integer, ties to even
RoundHalfEven(n, d) ==
    LET q == n \div d
        r == n - q * d
    IN  IF 2 * r < d THEN q
        ELSE IF 2 * r > d THEN q + 1
        ELSE IF q % 2 = 0 THEN q ELSE q + 1

DashText == [t |-> "dash", dec |-> 0, v |-> 0]

\* "{:.<dec>f}".format(v): the number in units of 10^-dec, or "inf" / "-inf"
Format(v, dec) ==
    IF v.k = "inf" THEN [t |-> "inf", dec |-> 0, v |-> v.n]
    ELSE [t |-> "fixed", dec |-> dec, v |-> RoundHalfEven(v.n * Pow10(dec), v.d)]

\* txt = "{:..f}".format(v_float) if pd.notna(v) else the dash (lines 538-541)
CellText(v, dec) == IF IsNaN(v) THEN DashText ELSE Format(v, dec)

\* lines 527-529: float(v) of a float never raises, so v_float is v
BarRatio(v, vmin, vmax) ==
    LET ratio == IF FLe(vmax, vmin) THEN Num(0, 1)
                 ELSE FDiv(FSub(v, vmin), FSub(vmax, vmin))
    IN  _clamp(ratio, Num(0, 1), Num(1, 1))

BarCell(v, vmax, dec) ==
    [value |-> v, ratio |-> BarRatio(v, BarMin, vmax), txt |-> CellText(v, dec)]

\* what is drawn for one row of display_df (lines 502-569)
DrawRow(row) ==
    [row_type |-> row.row_type,
     Min |-> CellText(row.Min, 0),
     TotalDistanceKm |-> BarCell(row.TotalDistanceKm, KmMax, 3),
     MPerMin |-> BarCell(row.MPerMin, MPerMinMax, 0),
     Runs |-> BarCell(row.Runs, RunsMax, 0),
     Sprints |-> BarCell(row.Sprints, SprintsMax, 0)]

BarColumns == {"TotalDistanceKm", "MPerMin", "Runs", "Sprints"}

\* line 381: dpi: int = 200, which is also what app.py passes (line 91)
DefaultDpi == 200

\* int(round(x)) of a finite float
IntRound(x) == RoundHalfEven(x.n, x.d)

\* lines 365-369
_a4_landscape_px(d) ==
    [w |-> IntRound(Num(1169 * d, 100)), h |-> IntRound(Num(827 * d, 100))]

\* lines 405-407 and 431-433
base_row_h == 52
base_header_h == 56
base_title_h == 56
base_caption_h == 34
base_top_block_h == base_title_h + base_caption_h + 12

\* lines 412-421, in the order of show_cols
base_col_widths == <<260, 180, 70, 70, 320, 260, 220, 220>>

RECURSIVE SumSeq(_)
SumSeq(s) == IF s = <<>> THEN 0 ELSE Head(s) + SumSeq(Tail(s))

\* line 423
base_table_w == SumSeq(base_col_widths)
\* line 424
base_table_h(n) == base_header_h + (n * base_row_h)

\* line 427
page_w(d) == _a4_landscape_px(d).w
page_h(d) == _a4_landscape_px(d).h
\* line 428
margin(d) == IntRound(Num(35 * d, 100))
\* lines 435-436
avail_w(d) == page_w(d) - (2 * margin(d))
avail_h(d) == page_h(d) - (2 * margin(d)) - base_top_block_h

\* lines 439-440
scale_w(d) == FDiv(Num(avail_w(d), 1), Num(base_table_w, 1))
scale_h(n, d) == FDiv(Num(avail_h(d), 1), Num(base_table_h(n), 1))

ScaleMin == Num(45, 100)
ScaleMax == Num(135, 100)

scale_width_only(n, d) == _clamp(scale_w(d), ScaleMin, ScaleMax)

\* line 441
scale(n, d) == _clamp(PyMin(scale_w(d), scale_h(n, d)), ScaleMin, ScaleMax)

\* int(round(base * scale)), lines 444-452 and 476
Scaled(base, sc) == IntRound(Num(base * sc.n, sc.d))

PyMaxInt(a, b) == IF a < b THEN b ELSE a

\* the geometry of the page for a frame of n rows, lines 423-480
Layout(n, d) ==
    LET sc == scale(n, d)
        row_h == Scaled(base_row_h, sc)
        header_h == Scaled(base_header_h, sc)
        title_h == Scaled(base_title_h, sc)
        caption_h == Scaled(base_caption_h, sc)
        table_w == SumSeq([i \in 1..Len(base_col_widths) |->
                              Scaled(base_col_widths[i], sc)])
        table_h == header_h + (n * row_h)
    IN  [scale |-> sc,
         page_w |-> page_w(d), page_h |-> page_h(d), margin |-> margin(d),
         avail_w |-> avail_w(d), avail_h |-> avail_h(d),
         base_table_w |-> base_table_w, base_table_h |-> base_table_h(n),
         row_h |-> row_h, header_h |-> header_h,
         table_w |-> table_w, table_h |-> table_h,
         table_x0 |-> margin(d) + PyMaxInt(0, (avail_w(d) - table_w) \div 2),
         table_y0 |-> margin(d) + title_h + caption_h + Scaled(14, sc)]

NoPng == [drawn |-> FALSE, raised |-> FALSE, rows |-> <<>>, layout |-> <<>>]

\* int(bar_w * ratio) (line 533) raises on a ratio that is nan or infinite
table_to_png_bytes(display, d) ==
    LET rows == [i \in 1..Len(display) |-> DrawRow(display[i])]
    IN  [drawn |-> TRUE,
         raised |-> \E i \in 1..Len(rows) : \E c \in BarColumns :
                        ~IsFinite(rows[i][c].ratio),
         rows |-> rows,
         layout |-> Layout(Len(display), d)]

-----------------------------------------------------------------------------
(* the raw tables the model is run on                                      *)

MaxRows == 3

ClubX == <<"X">>
ClubY == <<"Y">>
PlayerA == <<"A">>
PlayerB == <<"B">>
PlayerC == <<"C">>
LabelXY == <<"X"," ","v","s"," ","Y">>
PosFW == <<"F","W">>

\* two dates, the second also written with a leading zero, and an id of
\* eight digits that is no date (month 13)
MatchIds == {<<"2","0","2","3","0","1","0","2">>, <<"2","0","2","3","0","1","0","1">>, <<"0","2","0","2","3","0","1","0","1">>, <<"2","0","2","3","1","3","0","1">>}

Raw(clb, player, mid, label, minutes, total, runs, sprints) ==
    [club |-> clb, player_name |-> player, match_id |-> mid,
     match_name |-> label, Minutes |-> minutes, total_distance |-> total,
     hi_runs |-> runs, sprint_runs |-> sprints, position |-> PosFW]

PlainRow(clb, player, mid) ==
    Raw(clb, player, mid, LabelXY, IntCell(90), IntCell(10000), IntCell(20), IntCell(5))

OverviewRows ==
    {PlainRow(ClubX, p, m) : p \in {PlayerA, PlayerB}, m \in MatchIds}
        \cup {PlainRow(ClubY, PlayerA, <<"2","0","2","3","0","1","0","1">>)}

Tables(rows, n) == UNION {[1..k -> rows] : k \in 0..n}

\* the club as the table spells it, and in another case
Teams == {ClubX, <<"x">>}
Compares == {NoneValue, <<>>, PlayerA, PlayerB, PlayerC}

ColumnSets == {REQUIRED_COLUMNS, REQUIRED_COLUMNS \ {"hi_runs"}}

-----------------------------------------------------------------------------
(* build_player_match_overview as a state machine                          *)

NotInApp ==
    /\ csv_exists = TRUE
    /\ app_pc = "none"
    /\ ui = <<>>

NotParsing ==
    /\ match_name = <<>>
    /\ club = <<>>
    /\ parsed = <<>>

NoCall ==
    /\ team_name = <<>>
    /\ team_player_name = <<>>
    /\ compare_player_name = NoneValue
    /\ pc = "idle"
    /\ result = NoResult
    /\ combined_src = <<>>
    /\ display_df = <<>>
    /\ caption = <<>>
    /\ png = NoPng
    /\ log = <<>>

Init ==
    /\ columns = REQUIRED_COLUMNS
    /\ dpi = DefaultDpi
    /\ df \in Tables(OverviewRows, MaxRows)
    /\ NoCall
    /\ NotInApp
    /\ NotParsing

\* a caller invokes build_player_match_overview(df, team, player, compare);
\* the tables treat the two players alike, so the target is always PlayerA
Call ==
    /\ pc = "idle"
    /\ app_pc = "none"
    /\ \E team \in Teams, compare \in Compares :
        /\ team_name' = team
        /\ team_player_name' = PlayerA
        /\ compare_player_name' = compare
    /\ pc' = "validate"
    /\ UNCHANGED <<csv_exists, dpi, columns, df, result, combined_src, display_df,
                   caption, png, app_pc, ui, log, match_name, club, parsed>>

\* line 191
Validate ==
    /\ pc = "validate"
    /\ log' = Append(log, "validate_physical_data")
    /\ IF MissingColumns(columns) # {}
       THEN /\ result' = SchemaError(MissingColumns(columns))
            /\ pc' = "done"
       ELSE /\ result' = result
            /\ pc' = "derive"
    /\ UNCHANGED <<csv_exists, dpi, columns, df, team_name, team_player_name,
                   compare_player_name, combined_src, display_df, caption,
                   png, app_pc, ui, match_name, club, parsed>>

\* lines 194-314
Overview ==
    /\ pc = "derive"
    /\ log' = Append(log, "_compute_player_match_metrics")
    /\ pc' = "done"
    /\ IF Len(_compute_player_match_metrics(df, team_name, team_player_name)) = 0
       THEN /\ result' = NotFoundError
            /\ UNCHANGED <<combined_src, display_df, caption>>
       ELSE /\ result' = Returned
            /\ combined_src' = sort_values(WithSortDate(
                   Combine(df, team_name, team_player_name, compare_player_name)))
            /\ display_df' = Display(combined_src')
            /\ caption' = Caption(team_name, team_player_name, compare_player_name)
    /\ UNCHANGED <<csv_exists, dpi, columns, df, team_name, team_player_name,
                   compare_player_name, png, app_pc, ui, match_name, club, parsed>>

Next == Call \/ Validate \/ Overview

Spec == Init /\ [][Next]_vars

-----------------------------------------------------------------------------
(* the metrics of one record, derived and drawn                            *)

MinutesCells == {IntCell(0), IntCell(45), IntCell(90), TextCell, NaCell}
DistanceCells == {IntCell(0), IntCell(10000), IntCell(13000), IntCell(15000),
                  IntCell(-500), TextCell, NaCell}
RunsCells == {IntCell(0), IntCell(50), IntCell(60), TextCell}
SprintsCells == {IntCell(5), IntCell(25), NaCell}

MetricRows ==
    {Raw(ClubX, PlayerA, <<"2","0","2","3","0","1","0","1">>, LabelXY, m, t, r, s) :
        m \in MinutesCells, t \in DistanceCells, r \in RunsCells, s \in SprintsCells}

InitMetrics ==
    /\ columns \in ColumnSets
    /\ dpi = DefaultDpi
    /\ df \in {<<r>> : r \in MetricRows}
    /\ NoCall
    /\ NotInApp
    /\ NotParsing

\* a caller passes the returned display_df to table_to_png_bytes
TableToPng ==
    /\ pc = "done"
    /\ app_pc = "none"
    /\ result.kind = "ok"
    /\ ~png.drawn
    /\ png' = table_to_png_bytes(display_df, dpi)
    /\ log' = Append(log, "table_to_png_bytes")
    /\ UNCHANGED <<csv_exists, dpi, columns, df, team_name, team_player_name,
                   compare_player_name, pc, result, combined_src, display_df,
                   caption, app_pc, ui, match_name, club, parsed>>

NextMetrics == Call \/ Validate \/ Overview \/ TableToPng

SpecMetrics == InitMetrics /\ [][NextMetrics]_vars

-----------------------------------------------------------------------------
(* app.main                                                                *)

\* sorted(set of str)
RECURSIVE SortedStrings(_)
SortedStrings(S) ==
    IF S = {} THEN <<>>
    ELSE LET m == CHOOSE x \in S : \A y \in S : ~StrLt(y, x)
         IN  <<m>> \o SortedStrings(S \ {m})

list_teams(table) ==
    SortedStrings({Str(table[i].club) :
                      i \in {j \in 1..Len(table) : table[j].club # NoneValue}})

list_players_for_team(table, team) ==
    SortedStrings({Str(table[i].player_name) :
                      i \in {j \in 1..Len(table) :
                                /\ Str(table[j].club) = Str(team)
                                /\ table[j].player_name # NoneValue}})

\* st.selectbox: one of the options, None when there is none
Options(list) == IF Len(list) = 0 THEN {NoneValue} ELSE {list[i] : i \in 1..Len(list)}

NONE_OPTION == <<"(","N","o","n","e",")">>

Shown(what) == [w |-> what, missing |-> {}]

AppRows == {PlainRow(ClubX, PlayerA, <<"2","0","2","3","0","1","0","1">>), PlainRow(ClubX, PlayerB, <<"2","0","2","3","0","1","0","1">>),
            PlainRow(ClubY, PlayerA, <<"2","0","2","3","0","1","0","2">>)}

AppColumnSets == {REQUIRED_COLUMNS,
                  REQUIRED_COLUMNS \cup {"notes"},
                  REQUIRED_COLUMNS \ {"hi_runs"},
                  (REQUIRED_COLUMNS \ {"club", "player_name"}) \cup {"notes"},
                  {}}

\* a run of the app (app_pc = "start") or a direct call of
\* build_player_match_overview on a loaded table (app_pc = "none")
InitApp ==
    /\ columns \in AppColumnSets
    /\ dpi = DefaultDpi
    /\ df \in Tables(AppRows, MaxRows)
    /\ NoCall
    /\ NotParsing
    /\ ui = <<>>
    /\ \/ app_pc = "start" /\ csv_exists \in BOOLEAN
       \/ app_pc = "none" /\ csv_exists = TRUE

\* lines 32-43: the title, then the file check and the load
AppStart ==
    /\ app_pc = "start"
    /\ IF csv_exists
       THEN /\ ui' = Append(ui, Shown("title"))
            /\ log' = Append(log, "load_physical_data")
            /\ app_pc' = "loaded"
       ELSE /\ ui' = ui \o <<Shown("title"), Shown("error: file not found")>>
            /\ log' = log
            /\ app_pc' = "stopped"
    /\ UNCHANGED <<csv_exists, dpi, columns, df, team_name, team_player_name,
                   compare_player_name, pc, result, combined_src, display_df,
                   caption, png, match_name, club, parsed>>

\* lines 44-48: st.error and st.stop when validation raises
AppValidate ==
    /\ app_pc = "loaded"
    /\ log' = Append(log, "validate_physical_data")
    /\ IF MissingColumns(columns) # {}
       THEN /\ ui' = Append(ui, [w |-> "error: missing columns",
                                 missing |-> MissingColumns(columns)])
            /\ app_pc' = "stopped"
       ELSE /\ ui' = ui
            /\ app_pc' = "validated"
    /\ UNCHANGED <<csv_exists, dpi, columns, df, team_name, team_player_name,
                   compare_player_name, pc, result, combined_src, display_df,
                   caption, png, match_name, club, parsed>>

\* lines 50-76: the lists, the three select boxes, and the call when a team
\* and a player are selected
AppSidebar ==
    /\ app_pc = "validated"
    /\ \E team \in Options(list_teams(df)) :
         LET players == IF Truthy(team) THEN list_players_for_team(df, team) ELSE <<>>
         IN  \E player_1 \in Options(players),
                compare_selected \in {NONE_OPTION} \cup {players[i] : i \in 1..Len(players)} :
               LET player_2 == IF compare_selected = NONE_OPTION \/ compare_selected = player_1
                               THEN NoneValue
                               ELSE compare_selected
               IN  /\ log' = log \o <<"list_teams">>
                                 \o (IF Truthy(team) THEN <<"list_players_for_team">> ELSE <<>>)
                   /\ IF ~Truthy(team) \/ ~Truthy(player_1)
                      THEN /\ ui' = ui \o <<Shown("sidebar"), Shown("info: select a team and player")>>
                           /\ app_pc' = "stopped"
                           /\ UNCHANGED <<team_name, team_player_name, compare_player_name, pc>>
                      ELSE /\ ui' = Append(ui, Shown("sidebar"))
                           /\ app_pc' = "building"
                           /\ team_name' = team
                           /\ team_player_name' = player_1
                           /\ compare_player_name' = player_2
                           /\ pc' = "validate"
    /\ UNCHANGED <<csv_exists, dpi, columns, df, result, combined_src, display_df,
                   caption, png, match_name, club, parsed>>

\* lines 78-105: the table, then the image and the download button; an
\* exception of the call is shown as an error instead
AppRender ==
    /\ app_pc = "building"
    /\ pc = "done"
    /\ app_pc' = "done"
    /\ IF result.kind = "ok"
       THEN /\ png' = table_to_png_bytes(display_df, dpi)
            /\ log' = log \o <<"styler_to_html", "table_to_png_bytes">>
            /\ ui' = ui \o <<Shown("table"), Shown("download")>>
       ELSE /\ ui' = Append(ui, [w |-> "error: call failed", missing |-> result.missing])
            /\ UNCHANGED <<png, log>>
    /\ UNCHANGED <<csv_exists, dpi, columns, df, team_name, team_player_name,
                   compare_player_name, pc, result, combined_src, display_df,
                   caption, match_name, club, parsed>>

NextApp ==
    \/ AppStart \/ AppValidate \/ AppSidebar \/ AppRender
    \/ Call \/ Validate \/ Overview \/ TableToPng

SpecApp == InitApp /\ [][NextApp]_vars

\* the steps that read the table or show it
DataSteps == {"list_teams", "list_players_for_team", "_compute_player_match_metrics",
              "styler_to_html", "table_to_png_bytes"}

Absent == REQUIRED_COLUMNS \ columns

\* C6: validation is complete and comes first: the error names every required
\* column that is absent, nothing is raised when all ten are present (extra
\* columns ignored), no listing, filtering or rendering happens before the
\* validation, and none happens after it has failed.
C6_ValidationFirst ==
    /\ \A i \in 1..Len(log) :
           log[i] \in DataSteps => \E j \in 1..(i - 1) : log[j] = "validate_physical_data"
    /\ Absent # {} =>
           /\ \A i \in 1..Len(log) : log[i] \notin DataSteps
           /\ \A i \in 1..Len(ui) : ui[i].w \notin {"sidebar", "table", "download"}
           /\ display_df = <<>> /\ ~png.drawn
           /\ app_pc \notin {"validated", "building", "done"}
           /\ pc # "derive"
    /\ \A i \in 1..Len(ui) :
           ui[i].w = "error: missing columns" => (ui[i].missing = Absent /\ Absent # {})
    /\ result.kind = "SchemaError" => (result.missing = Absent /\ Absent # {})
    /\ (Absent # {} /\ app_pc = "stopped" /\ csv_exists) =>
           ui[Len(ui)] = [w |-> "error: missing columns", missing |-> Absent]
    /\ (Absent # {} /\ pc = "done") => result = [kind |-> "SchemaError", missing |-> Absent]

\* two required columns are absent beside an extra one: the app stops after
\* the validation with an error that names both
C6_Witness ==
    /\ app_pc = "stopped"
    /\ Absent = {"club", "player_name"}
    /\ "notes" \in columns
    /\ log = <<"load_physical_data", "validate_physical_data">>
    /\ ui = <<Shown("title"),
              [w |-> "error: missing columns", missing |-> {"club", "player_name"}]>>

-----------------------------------------------------------------------------
(* _parse_home_away_and_opponent on its own                                *)

PSV == <<"P","S","V">>
JongPSV == <<"J","o","n","g"," ","P","S","V">>
GoAheadEagles == <<"G","o"," ","A","h","e","a","d"," ","E","a","g","l","e","s">>
FCUtrecht == <<"F","C"," ","U","t","r","e","c","h","t">>
Ajax == <<"A","j","a","x">>

SideNames == {PSV, JongPSV, GoAheadEagles, Ajax}

\* the five separators of the code, a dash, a case variant the code does not
\* list, and " vs " between doubled blanks
Between == {<<" ","v","s"," ">>, <<" ","v"," ">>, <<" ","V","S"," ">>, <<" ","V","s"," ">>, <<" ","V"," ">>, <<" ","-"," ">>, <<" ","v","S"," ">>, <<" "," ","v","s"," "," ">>}

Labels ==
    {l \o sep \o r : l \in SideNames, sep \in Between, r \in SideNames}
        \cup {<<>>, <<" "," "," ">>, NoneValue, PSV,
              <<"P","S","V"," ","v","s"," ","A","j","a","x"," ","v","s"," ","J","o","n","g"," ","P","S","V">>, <<"P","S","V"," ","v"," ","A","j","a","x"," ","v","s"," ","J","o","n","g"," ","P","S","V">>, <<"P","S","V"," ","v","s"," ","A","j","a","x"," ","v"," ","P","S","V">>, <<"A","j","a","x"," ","v"," ","v"," ","P","S","V">>}

Clubs == {PSV, <<"p","s","v">>, <<" ","P","s","v"," ">>, JongPSV, GoAheadEagles, FCUtrecht, Ajax, <<>>}

InitParse ==
    /\ match_name \in Labels
    /\ dpi = DefaultDpi
    /\ club \in Clubs
    /\ parsed = <<>>
    /\ columns = REQUIRED_COLUMNS
    /\ df = <<>>
    /\ NoCall
    /\ NotInApp

\* a caller invokes _parse_home_away_and_opponent(match_name, club)
Parse ==
    /\ parsed = <<>>
    /\ parsed' = _parse_home_away_and_opponent(match_name, club)
    /\ UNCHANGED <<csv_exists, dpi, columns, df, team_name, team_player_name,
                   compare_player_name, pc, result, combined_src, display_df,
                   caption, png, app_pc, ui, log, match_name, club>>

NextParse == Parse

SpecParse == InitParse /\ [][NextParse]_vars

\* sub occurs in s
Occurs(sub, s) ==
    \E i \in 0..(Len(s) - Len(sub)) : \A j \in 1..Len(sub) : s[i + j] = sub[j]

\* C10: a label that splits into (left, right) is decided by comparing the
\* club without regard to case, equality before containment: club = left is
\* (Home, right); else club = right is (Away, left), even when left contains
\* the club; else left contains the club is (Home, right); else right contains
\* it is (Away, left); else ("?", "<left> vs <right>").  A label that does not
\* split is ("?", the normalized label), an empty label ("?", "Unknown").
\* "PSV vs Go Ahead Eagles" is Home/Go Ahead Eagles for PSV, Away/PSV for Go
\* Ahead Eagles and ?/"PSV vs Go Ahead Eagles" for FC Utrecht.
C10_HomeAwayParsing ==
    parsed # <<>> =>
        LET lr == IF match_name = NoneValue THEN <<>>
                  ELSE SplitLabel(Normalize(match_name))
            c == casefold(strip(club))
            l == casefold(lr[1])
            r == casefold(lr[2])
        IN  /\ (match_name = NoneValue \/ \A i \in 1..Len(match_name) : match_name[i] = " ")
                   => parsed = <<QMARK, UNKNOWN>>
            /\ (match_name # NoneValue /\ (\E i \in 1..Len(match_name) : match_name[i] # " ")
                    /\ lr = <<>>)
                   => parsed = <<QMARK, Normalize(match_name)>>
            /\ lr # <<>> =>
                   /\ c = l => parsed = <<HOME, lr[2]>>
                   /\ (c # l /\ c = r) => parsed = <<AWAY, lr[1]>>
                   /\ (c # l /\ c # r /\ Occurs(c, l)) => parsed = <<HOME, lr[2]>>
                   /\ (c # l /\ c # r /\ ~Occurs(c, l) /\ Occurs(c, r))
                          => parsed = <<AWAY, lr[1]>>
                   /\ (~Occurs(c, l) /\ ~Occurs(c, r))
                          => parsed = <<QMARK, lr[1] \o VS \o lr[2]>>
            /\ match_name = <<"P","S","V"," ","v","s"," ","G","o"," ","A","h","e","a","d"," ","E","a","g","l","e","s">> =>
                   /\ lr = <<PSV, GoAheadEagles>>
                   /\ club = PSV => parsed = <<HOME, GoAheadEagles>>
                   /\ club = GoAheadEagles => parsed = <<AWAY, PSV>>
                   /\ club = FCUtrecht => parsed = <<QMARK, <<"P","S","V"," ","v","s"," ","G","o"," ","A","h","e","a","d"," ","E","a","g","l","e","s">>>>
            /\ match_name = <<"J","o","n","g"," ","P","S","V"," ","V"," ","P","S","V">> => lr = <<JongPSV, PSV>>
            /\ match_name = <<"P","S","V"," ","v","s"," ","A","j","a","x"," ","v","s"," ","J","o","n","g"," ","P","S","V">> => lr = <<>>

\* the club equals the right side and is contained in the left side: Away
C10_Witness ==
    /\ match_name = <<"J","o","n","g"," ","P","S","V"," ","V"," ","P","S","V">>
    /\ club = <<"p","s","v">>
    /\ parsed = <<AWAY, JongPSV>>

-----------------------------------------------------------------------------
(* Properties of build_player_match_overview                               *)

Range(s) == {s[i] : i \in 1..Len(s)}

\* the bag of the elements of a sequence
BagOfSeq(s) == [x \in Range(s) |-> Cardinality({i \in 1..Len(s) : s[i] = x})]

Finished == pc = "done" /\ result.kind = "ok"

\* the raw records of the club for the target and for the comparison player
TargetRecords ==
    LET Keep(r) == r.club = team_name /\ r.player_name = team_player_name
    IN  SelectSeq(df, Keep)

CompareRecords ==
    LET Keep(r) == r.club = team_name /\ r.player_name = compare_player_name
    IN  SelectSeq(df, Keep)

ComparisonGiven ==
    /\ compare_player_name # NoneValue
    /\ compare_player_name # <<>>
    /\ compare_player_name # team_player_name

\* the row a raw record is shown as, under a role
ShownAs(r, role) == DisplayRow(DeriveRow(r) @@ [_row_type |-> role])

ShownRows(records, role) == [i \in 1..Len(records) |-> ShownAs(records[i], role)]

\* the raw match ids of the output rows that carry a role
MatchIdsOf(role) ==
    {combined_src[i].match_id : i \in {j \in 1..Len(combined_src) :
                                          combined_src[j]._row_type = role}}

\* C1: with a comparison player other than the target who has records for the
\* club, the output is the union of both histories: every target record is
\* exactly one 'primary' row, every comparison record exactly one 'compare'
\* row, and there is no other row.
C1_UnionOfBothHistories ==
    (Finished /\ ComparisonGiven /\ Len(CompareRecords) > 0) =>
        /\ Len(display_df) = Len(TargetRecords) + Len(CompareRecords)
        /\ BagOfSeq(display_df) =
               BagOfSeq(ShownRows(TargetRecords, "primary")
                            \o ShownRows(CompareRecords, "compare"))
        /\ MatchIdsOf("primary") = {r.match_id : r \in Range(TargetRecords)}
        /\ MatchIdsOf("compare") = {r.match_id : r \in Range(CompareRecords)}
        /\ \A i \in 1..Len(display_df) :
               display_df[i] = DisplayRow(combined_src[i])

\* both players have records, and each played a match the other did not
C1_Witness ==
    /\ Finished /\ ComparisonGiven
    /\ Len(TargetRecords) >= 1 /\ Len(CompareRecords) >= 2
    /\ MatchIdsOf("primary") \ MatchIdsOf("compare") # {}
    /\ MatchIdsOf("compare") \ MatchIdsOf("primary") # {}
    /\ Len(display_df) = 3

\* C4: without a comparison player (None or ""), with the target named as the
\* comparison, or with a comparison player without records for the club, the
\* call returns the target's records, one 'primary' row each, and no other row.
C4_TargetOnly ==
    (/\ pc = "done"
     /\ MissingColumns(columns) = {}
     /\ Len(TargetRecords) > 0
     /\ (~ComparisonGiven \/ Len(CompareRecords) = 0)) =>
        /\ result.kind = "ok"
        /\ Len(display_df) = Len(TargetRecords)
        /\ \A i \in 1..Len(display_df) : display_df[i].row_type = "primary"
        /\ BagOfSeq(display_df) = BagOfSeq(ShownRows(TargetRecords, "primary"))
        /\ MatchIdsOf("primary") = {r.match_id : r \in Range(TargetRecords)}

\* the comparison player is named, has no record for the club, and the target
\* is returned alone
C4_Witness ==
    /\ Finished
    /\ compare_player_name = PlayerC
    /\ Len(TargetRecords) = 2
    /\ Len(display_df) = 2

\* C5: on a table that passes validation the call fails with the not-found
\* error exactly when no raw row has the club and the player name, compared as
\* exact strings; then no table is returned.
C5_NotFoundIffNoRow ==
    pc = "done" =>
        /\ (result.kind = "NotFound") <=>
               (/\ MissingColumns(columns) = {}
                /\ ~\E i \in 1..Len(df) : /\ df[i].club = team_name
                                          /\ df[i].player_name = team_player_name)
        /\ (result.kind = "NotFound") =>
               (display_df = <<>> /\ combined_src = <<>> /\ caption = <<>>)

\* the club is asked for in another case than the table spells it
C5_Witness ==
    /\ pc = "done"
    /\ result.kind = "NotFound"
    /\ team_name = <<"x">>
    /\ \E i \in 1..Len(df) : df[i].club = ClubX /\ df[i].player_name = team_player_name

\* the ordering of two rows a, b where a is put before b
Undated(r) == r._match_date = NoDate
NotOlder(a, b) == Undated(b) \/ (~Undated(a) /\ a._match_date >= b._match_date)
SameDate(a, b) == a._match_date = b._match_date
IdNotSmaller(a, b) ==
    IsNaN(b._match_id_num) \/
        (~IsNaN(a._match_id_num) /\ ~FLt(a._match_id_num, b._match_id_num))
SameId(a, b) == a._match_id_num = b._match_id_num
RoleRank(r) == IF r._row_type = "primary" THEN 0 ELSE 1

RowsOf(m) == {i \in 1..Len(combined_src) : combined_src[i].match_id = m}
OutputMatchIds == {combined_src[i].match_id : i \in 1..Len(combined_src)}
RecordsFor(records, m) == Cardinality({i \in 1..Len(records) : records[i].match_id = m})

\* C3 as claimed: in comparison mode a match both players played is an
\* adjacent pair, the primary row immediately followed by the compare row, and
\* a match only one of them played is a single row.
C3_AdjacentPairs ==
    (Finished /\ ComparisonGiven /\ Len(CompareRecords) > 0) =>
        \A m \in OutputMatchIds :
            IF m \in MatchIdsOf("primary") /\ m \in MatchIdsOf("compare")
            THEN \E i \in 1..(Len(combined_src) - 1) :
                    /\ RowsOf(m) = {i, i + 1}
                    /\ combined_src[i]._row_type = "primary"
                    /\ combined_src[i + 1]._row_type = "compare"
            ELSE Cardinality(RowsOf(m)) = 1

\* C3 amended: in comparison mode the rows of one match id are one row per
\* record of the two players, stand together, and have the primary rows before
\* the compare rows; so when each player has one record of the match the
\* primary row is immediately followed by the compare row, and when one player
\* has one record and the other none the match is a single row.
C3_MatchBlocks ==
    (Finished /\ ComparisonGiven /\ Len(CompareRecords) > 0) =>
        \A m \in OutputMatchIds :
            /\ Cardinality(RowsOf(m)) =
                   RecordsFor(TargetRecords, m) + RecordsFor(CompareRecords, m)
            /\ \A i, j \in RowsOf(m) : \A k \in i..j : k \in RowsOf(m)
            /\ \A i, j \in RowsOf(m) :
                   (i < j) => RoleRank(combined_src[i]) <= RoleRank(combined_src[j])
            /\ (RecordsFor(TargetRecords, m) = 1 /\ RecordsFor(CompareRecords, m) = 1)
                   => \E i \in 1..(Len(combined_src) - 1) :
                          /\ RowsOf(m) = {i, i + 1}
                          /\ combined_src[i]._row_type = "primary"
                          /\ combined_src[i + 1]._row_type = "compare"

\* a match both played as a pair between two matches only one of them played
C3_Witness ==
    /\ Finished /\ ComparisonGiven
    /\ Len(combined_src) = 3
    /\ combined_src[1]._row_type = "primary"
    /\ combined_src[2]._row_type = "compare"
    /\ combined_src[1].match_id = combined_src[2].match_id
    /\ combined_src[3].match_id # combined_src[2].match_id

-----------------------------------------------------------------------------
(* Properties of the derived metrics and of the bars drawn for them        *)

\* the derived row and the raw record it is computed from (tables of one row)
Derived == combined_src[1]
Source == df[1]

IsNumber(cell) == cell.t = "int"

\* C7: total_km is total_distance / 1000; m_per_min is total_distance / minutes
\* when minutes > 0; when minutes is zero, missing or not a number m_per_min is
\* the missing marker, neither a number nor an infinity.
C7_UnitConversions ==
    (Finished /\ Len(combined_src) = 1) =>
        /\ IsNumber(Source.total_distance) =>
               Derived.total_km = Num(Source.total_distance.v, 1000)
        /\ (IsNumber(Source.total_distance) /\ IsNumber(Source.Minutes)
                /\ Source.Minutes.v > 0) =>
               Derived.m_per_min = Num(Source.total_distance.v, Source.Minutes.v)
        /\ (~IsNumber(Source.Minutes) \/ Source.Minutes.v = 0) =>
               IsNaN(Derived.m_per_min)

BarMax(c) ==
    CASE c = "TotalDistanceKm" -> KmMax
      [] c = "MPerMin" -> MPerMinMax
      [] c = "Runs" -> RunsMax
      [] c = "Sprints" -> SprintsMax

BarDecimals(c) == IF c = "TotalDistanceKm" THEN 3 ELSE 0

DrawnBars == {<<i, c>> : i \in 1..Len(png.rows), c \in BarColumns}

\* the value of a bar cell as the fraction x of its range [0, vmax]
ExactFraction(v, vmax) == Num(v.n * vmax.d, v.d * vmax.n)

\* C8: for each of the four bar columns and every row with a defined number
\* the bar fraction is clamp((value - vmin) / (vmax - vmin), 0, 1): it lies in
\* [0, 1], is 0 exactly when value <= vmin, 1 exactly when value >= vmax, and
\* the number printed is the value itself, not the clamped one.
C8_BarFractionClamped ==
    png.drawn =>
        \A ic \in DrawnBars :
            LET cell == png.rows[ic[1]][ic[2]]
                vmax == BarMax(ic[2])
                x == ExactFraction(cell.value, vmax)
                unit == Pow10(BarDecimals(ic[2]))
            IN  IsFinite(cell.value) =>
                    /\ cell.value = display_df[ic[1]][ic[2]]
                    /\ IsFinite(cell.ratio)
                    /\ cell.ratio.n >= 0 /\ cell.ratio.n <= cell.ratio.d
                    /\ (cell.ratio.n = 0) <=> (cell.value.n <= 0)
                    /\ (cell.ratio.n = cell.ratio.d) <=>
                           (cell.value.n * vmax.d >= vmax.n * cell.value.d)
                    /\ (x.n > 0 /\ x.n < x.d) => cell.ratio = x
                    /\ cell.txt.t = "fixed"
                    /\ 2 * Abs(cell.txt.v * cell.value.d - cell.value.n * unit)
                           <= cell.value.d

\* 15 km is drawn as a full bar and printed as 15.000
C8_Witness ==
    /\ png.drawn
    /\ Len(png.rows) = 1
    /\ png.rows[1].TotalDistanceKm.value = Num(15, 1)
    /\ png.rows[1].TotalDistanceKm.ratio = Num(1, 1)
    /\ png.rows[1].TotalDistanceKm.txt = [t |-> "fixed", dec |-> 3, v |-> 15000]
    /\ png.rows[1].MPerMin.ratio = Num(1, 1)
    /\ png.rows[1].Runs.ratio = Num(0, 1)
    /\ png.rows[1].Sprints.ratio = Num(1, 4)

\* C9: an undefined metric value (the missing marker, from an input that is
\* missing or not a number, or from 0 / 0 minutes) raises nowhere in
\* derivation or drawing, is printed as the dash and has bar fraction 0.
C9_UndefinedDrawnEmpty ==
    /\ (pc = "done" /\ MissingColumns(columns) = {} /\ Len(TargetRecords) > 0)
           => result.kind = "ok"
    /\ png.drawn =>
        /\ ~png.raised
        /\ \A ic \in DrawnBars :
            LET cell == png.rows[ic[1]][ic[2]]
            IN  IsNaN(cell.value) => (cell.txt = DashText /\ cell.ratio = Num(0, 1))

-----------------------------------------------------------------------------
(* the page laid out by table_to_png_bytes, for frames of many rows and for *)
(* several resolutions                                                       *)

MaxLayoutRows == 20

Dpis == {50, 72, 100, 150, 200, 300}

\* one player with n records
LayoutTable(n) ==
    [i \in 1..n |-> PlainRow(ClubX, PlayerA, <<"2","0","2","3","0","1","0","1">>)]

InitLayout ==
    /\ dpi \in Dpis
    /\ columns = REQUIRED_COLUMNS
    /\ df \in {LayoutTable(n) : n \in 1..MaxLayoutRows}
    /\ NoCall
    /\ NotInApp
    /\ NotParsing

NextLayout == Call \/ Validate \/ Overview \/ TableToPng

SpecLayout == InitLayout /\ [][NextLayout]_vars

\* min(scale_w, scale_h) before it is clamped, from the page that was laid out
UnclampedScale ==
    LET w == Num(png.layout.avail_w, png.layout.base_table_w)
        h == Num(png.layout.avail_h, png.layout.base_table_h)
    IN  IF FLt(h, w) THEN h ELSE w

\* C11: the scale applied by table_to_png_bytes is the smaller of
\* avail_w / base_table_w and avail_h / base_table_h, held inside
\* [0.45, 1.35]: it is 1.35 when that minimum is above 1.35, 0.45 when it is
\* below 0.45, the minimum itself in between, and never outside the interval
C11_ScaleClamped ==
    png.drawn =>
        /\ png.layout.base_table_w = 1600
        /\ png.layout.base_table_h = 56 + 52 * Len(display_df)
        /\ FLt(Num(135, 100), UnclampedScale) => png.layout.scale = Num(135, 100)
        /\ FLt(UnclampedScale, Num(45, 100)) => png.layout.scale = Num(45, 100)
        /\ (FLe(Num(45, 100), UnclampedScale) /\ FLe(UnclampedScale, Num(135, 100)))
               => png.layout.scale = UnclampedScale
        /\ FLe(Num(45, 100), png.layout.scale)
        /\ FLe(png.layout.scale, Num(135, 100))

\* a page whose unclamped minimum is below 0.45 has been laid out at 0.45
C11_Witness ==
    /\ png.drawn
    /\ FLt(UnclampedScale, Num(45, 100))
    /\ png.layout.scale = Num(45, 100)

\* C12: the page that table_to_png_bytes lays out holds the table: the last
\* row ends at or above page_h - margin, and the table lies between the left
\* and the right margin
C12_TableFitsPage ==
    png.drawn =>
        /\ png.layout.table_y0 + png.layout.header_h
               + Len(png.rows) * png.layout.row_h
             <= png.layout.page_h - png.layout.margin
        /\ png.layout.table_x0 >= png.layout.margin
        /\ png.layout.table_x0 + png.layout.table_w
             <= png.layout.page_w - png.layout.margin

-----------------------------------------------------------------------------
(* the caption against the rows that are returned                          *)

\* "<player1> vs <player2> - <team> (all matches)"
ComparisonForm ==
    team_player_name \o <<" ","v","s"," ">> \o compare_player_name
        \o <<" ","-"," ">> \o team_name
        \o <<" ","(","a","l","l"," ","m","a","t","c","h","e","s",")">>

\* "<player> - <team> (per match)"
SinglePlayerForm ==
    team_player_name \o <<" ","-"," ">> \o team_name
        \o <<" ","(","p","e","r"," ","m","a","t","c","h",")">>

HasCompareRows == \E i \in 1..Len(display_df) : display_df[i].row_type = "compare"

\* C13: the caption of a returned table agrees with its rows: it is the
\* comparison form exactly when some row is tagged 'compare', and the
\* single-player form when every row is the target's, also when a comparison
\* player was named who has no record for the club
C13_CaptionAgreesWithRows ==
    Finished =>
        /\ (caption = ComparisonForm) <=> HasCompareRows
        /\ ~HasCompareRows => caption = SinglePlayerForm

====
